---- MODULE Spec2Model ----
(***************************************************************************)
(* Snake Arena: the client-side game session (src/client/game.tsx,         *)
(* useSnakeGame) and the server-side scoreboard (the Hono router with the  *)
(* /snake/init and /snake/score handlers) as state machines.               *)
(***************************************************************************)
EXTENDS Integers, Sequences, FiniteSets, TLC

(***************************************************************************)
(* Program constants of the game.                                          *)
(***************************************************************************)
BOARD_SIZE == 20
\* Tick intervals are IEEE doubles in the source; the model keeps them in
\* fixed point, as thousandths of a millisecond.
TICK_SCALE == 1000
BASE_TICK_MS == 800
MIN_TICK_MS == 150

(***************************************************************************)
(* Program constants of the scoreboard.                                    *)
(***************************************************************************)
\* The comment log keeps the 20 most recent comments.
COMMENT_CAP == 20
\* A comment message is cut to 280 characters.
MESSAGE_MAX == 280

(***************************************************************************)
(* Bounds of the model.                                                    *)
(***************************************************************************)
\* The snake grows up to MaxLen cells; a pickup at MaxLen is not explored.
MaxLen == 4
\* In free play randomInt(BOARD_SIZE) is drawn from RandSpan + 1 values starting
\* at the middle of the board; the fallback cell (0,0) comes on top of these.
RandSpan == 0
\* The growth cap of the lane specification: 17 pickups reach and pass the
\* speed floor.
LaneMaxLen == 18
\* The steps of the clock in one tick interval.
TimerSteps == 2
\* The growth cap of the timed lane specification.
TimerMaxLen == 4
\* Connections that can be open at once.
MaxReqs == 2
\* Requests received in one behaviour of the overlapping-requests specification.
MaxRequests == 2
\* Requests received in one behaviour of the overlapping-submissions specification.
PairRequests == 3
\* Requests received in one behaviour of the sequential specification.
SeqRequests == 3
\* Requests received in one behaviour of the comment-log specification.
LogRequests == 22
\* Submitted scores are multiples of one half, from -1/2 up to MaxScore halves.
MaxScore == 3

VARIABLES
    snake,          \* Cell[], head first
    direction,      \* committed direction
    nextDirection,  \* buffered direction
    food,           \* Cell
    score,
    gameOver,
    isRunning,
    tickMs,         \* in 1/TICK_SCALE ms
    sinceArm,       \* time since window.setInterval was last called, in
                    \* 1/TimerSteps of the tick interval; 0 when no interval is set
    sinceTick,      \* history: time since the last tick, or since the session
                    \* last became running, in the same unit
    scoreSlot,      \* the store's value under scoreKey: a string, "" when absent
    commentsSlot,   \* the store's value under commentsKey
    reqs,           \* the requests in flight, one per connection
    started,        \* how many requests were received so far
    nextId,         \* the next fresh comment id token
    created,        \* history: the comments persisted so far, in order
    lastResp,       \* history: the response sent most recently
    lastReq         \* history: the request that response answered

timerVars == <<sinceArm, sinceTick>>

gameVars ==
    <<snake, direction, nextDirection, food, score, gameOver, isRunning, tickMs, timerVars>>

serverVars ==
    <<scoreSlot, commentsSlot, reqs, started, nextId, created, lastResp, lastReq>>

vars == <<gameVars, serverVars>>

(***************************************************************************)
(* Cells and directions.                                                   *)
(***************************************************************************)
Cell(cx, cy) == [x |-> cx, y |-> cy]

\* The keys onKeyDown maps to a direction: arrows and WASD.
DirectionKeys == {"ArrowUp", "w", "ArrowDown", "s", "ArrowLeft", "a", "ArrowRight", "d"}

KeyDirection(key) ==
    IF key \in {"ArrowUp", "w"} THEN Cell(0, -1)
    ELSE IF key \in {"ArrowDown", "s"} THEN Cell(0, 1)
    ELSE IF key \in {"ArrowLeft", "a"} THEN Cell(-1, 0)
    ELSE Cell(1, 0)

cellsEqual(a, b) == a.x = b.x /\ a.y = b.y

SnakeCells(s) == {s[i] : i \in 1..Len(s)}

\* A faulty variant of OnSnake: the tail cell is not looked at.
OnSnakeBodyOnly(s, c) == \E i \in 1..(Len(s) - 1) : cellsEqual(s[i], c)

\* current.some((segment) => cellsEqual(segment, newHead))
OnSnake(s, c) == \E i \in 1..Len(s) : cellsEqual(s[i], c)

\* The values randomInt(max) is drawn from in the free-play specification.
randomInt(max) == {r \in 0..(max - 1) : r >= max \div 2 /\ r <= (max \div 2) + RandSpan}

\* The candidate cells {x: randomInt(BOARD_SIZE), y: randomInt(BOARD_SIZE)}.
Candidates == {Cell(cx, cy) : cx \in randomInt(BOARD_SIZE), cy \in randomInt(BOARD_SIZE)}

\* The candidate cells of the lane specification: the row of the start cell
\* from the start cell to the right wall, then the last column up to the top wall.
LaneCandidates ==
    {Cell(cx, BOARD_SIZE \div 2) : cx \in (BOARD_SIZE \div 2)..(BOARD_SIZE - 1)}
    \cup {Cell(BOARD_SIZE - 1, cy) : cy \in 0..(BOARD_SIZE \div 2)}

\* A faulty variant of generateFood: the candidate is not compared with the snake.
generateFoodUnchecked(cands, s) == cands

\* generateFood: up to 100 random candidates, the first one that is not on the
\* snake is returned; when all 100 candidates hit the snake the result is (0,0).
\* The loop can be exhausted exactly when the snake has a cell on the board.
\* cands is the set the random candidates are drawn from.
generateFood(cands, s) ==
    {c \in cands : ~OnSnake(s, c)}
    \cup (IF \E i \in 1..Len(s) : s[i].x \in 0..(BOARD_SIZE - 1) /\ s[i].y \in 0..(BOARD_SIZE - 1)
          THEN {Cell(0, 0)} ELSE {})

StartCell == Cell(BOARD_SIZE \div 2, BOARD_SIZE \div 2)

\* A faulty variant of NextTickMs: no floor.
NextTickMsNoFloor(prev) == (prev * 9) \div 10

\* A faulty variant of NextTickMs: the interval is divided by 0.9.
NextTickMsSlower(prev) ==
    LET next == (prev * 10) \div 9
    IN IF next < MIN_TICK_MS * TICK_SCALE THEN MIN_TICK_MS * TICK_SCALE ELSE next

\* setTickMs updater: 10% faster, floored at MIN_TICK_MS.
NextTickMs(prev) ==
    LET next == (prev * 9) \div 10
    IN IF next < MIN_TICK_MS * TICK_SCALE THEN MIN_TICK_MS * TICK_SCALE ELSE next

\* The useState initial values of useSnakeGame.
GameInit(cands) ==
    /\ snake = <<StartCell>>
    /\ direction = Cell(1, 0)
    /\ nextDirection = Cell(1, 0)
    /\ food \in generateFood(cands, <<>>)
    /\ score = 0
    /\ gameOver = FALSE
    /\ isRunning = FALSE
    /\ tickMs = BASE_TICK_MS * TICK_SCALE
    /\ sinceArm = 0
    /\ sinceTick = 0

\* A faulty variant of resetGame: the tick interval is not set back.
resetGameKeepsSpeed(cands) ==
    /\ snake' = <<StartCell>>
    /\ direction' = Cell(1, 0)
    /\ nextDirection' = Cell(1, 0)
    /\ food' \in generateFood(cands, <<StartCell>>)
    /\ score' = 0
    /\ gameOver' = FALSE
    /\ isRunning' = TRUE
    /\ UNCHANGED tickMs
    /\ UNCHANGED serverVars

resetGame(cands) ==
    /\ snake' = <<StartCell>>
    /\ direction' = Cell(1, 0)
    /\ nextDirection' = Cell(1, 0)
    /\ food' \in generateFood(cands, <<StartCell>>)
    /\ score' = 0
    /\ gameOver' = FALSE
    /\ isRunning' = TRUE
    /\ tickMs' = BASE_TICK_MS * TICK_SCALE
    /\ UNCHANGED serverVars

\* setIsRunning((prev) => !prev)
ToggleRunning ==
    /\ isRunning' = ~isRunning
    /\ UNCHANGED <<snake, direction, nextDirection, food, score, gameOver, tickMs>>
    /\ UNCHANGED serverVars

\* A faulty variant of KeyShift: the key toggles the running flag in every state.
KeyShiftToggles(cands) == ToggleRunning

\* keydown of the Shift key: reset when the game is over, pause/resume otherwise.
KeyShift(cands) == IF gameOver THEN resetGame(cands) ELSE ToggleRunning

\* click on the Start / Pause / Restart button.
ClickControl(cands) == IF gameOver THEN resetGame(cands) ELSE ToggleRunning

\* click on the "Play again" button, rendered only when the game is over.
ClickPlayAgain(cands) ==
    /\ gameOver
    /\ resetGame(cands)

\* A faulty variant of IsOpposite: the y component is compared without the sign change.
IsOppositeYSign(next, dir) == next.x = -dir.x /\ next.y = dir.y

IsOpposite(next, dir) == next.x = -dir.x /\ next.y = -dir.y

\* A faulty variant of KeyDir: the accepted direction is committed at once.
KeyDirCommits(next) ==
    /\ nextDirection' = IF IsOpposite(next, direction) THEN nextDirection ELSE next
    /\ direction' = nextDirection'
    /\ UNCHANGED <<snake, food, score, gameOver, isRunning, tickMs>>
    /\ UNCHANGED serverVars

\* keydown of a key that maps to the direction next.
KeyDir(next) ==
    /\ nextDirection' = IF IsOpposite(next, direction) THEN nextDirection ELSE next
    /\ UNCHANGED <<snake, direction, food, score, gameOver, isRunning, tickMs>>
    /\ UNCHANGED serverVars

NewHead == Cell(snake[1].x + nextDirection.x, snake[1].y + nextDirection.y)

\* A faulty variant of OutOfBoard: the upper bounds are not checked.
OutOfBoardNoMax(c) == c.x < 0 \/ c.y < 0

\* A faulty variant of OutOfBoard: the upper bounds are compared with > instead of >=.
OutOfBoardStrict(c) == c.x < 0 \/ c.y < 0 \/ c.x > BOARD_SIZE \/ c.y > BOARD_SIZE

OutOfBoard(c) == c.x < 0 \/ c.y < 0 \/ c.x >= BOARD_SIZE \/ c.y >= BOARD_SIZE

\* A faulty variant of Grown: the tail is dropped as in a plain move.
GrownDropsTail == <<NewHead>> \o SubSeq(snake, 1, Len(snake) - 1)

\* [newHead, ...current]
Grown == <<NewHead>> \o snake

\* A faulty variant of Moved: the new head is not prepended.
MovedDropsHead == SubSeq(snake, 1, Len(snake) - 1)

\* [newHead, ...current.slice(0, -1)]
Moved == <<NewHead>> \o SubSeq(snake, 1, Len(snake) - 1)

\* One firing of the interval callback. maxLen bounds the growth.
Tick(cands, maxLen) ==
    /\ isRunning /\ ~gameOver
    /\ direction' = nextDirection
    /\ UNCHANGED nextDirection
    /\ UNCHANGED serverVars
    /\ IF Len(snake) = 0
       THEN UNCHANGED <<snake, food, score, gameOver, isRunning, tickMs>>
       ELSE IF OutOfBoard(NewHead)
       THEN /\ gameOver' = TRUE
            /\ isRunning' = FALSE
            /\ UNCHANGED <<snake, food, score, tickMs>>
       ELSE IF OnSnake(snake, NewHead)
       THEN /\ gameOver' = TRUE
            /\ isRunning' = FALSE
            /\ UNCHANGED <<snake, food, score, tickMs>>
       ELSE IF cellsEqual(NewHead, food)
       THEN /\ Len(snake) < maxLen
            /\ snake' = Grown
            /\ score' = score + 1
            /\ tickMs' = NextTickMs(tickMs)
            /\ food' \in generateFood(cands, Grown)
            /\ UNCHANGED <<gameOver, isRunning>>
       ELSE /\ snake' = Moved
            /\ UNCHANGED <<food, score, gameOver, isRunning, tickMs>>

(***************************************************************************)
(* JavaScript values of the scoreboard.  A finite number is a count of     *)
(* halves (3 is 1.5); strings are sequences of characters.                 *)
(***************************************************************************)
Finite(h) == [kind |-> "finite", h |-> h]

NaN == [kind |-> "NaN", h |-> 0]

Infinity == [kind |-> "Infinity", h |-> 0]

Digit(n) == <<"0", "1", "2", "3", "4", "5", "6", "7", "8", "9">>[n + 1]

IsDigit(ch) == ch \in {"0", "1", "2", "3", "4", "5", "6", "7", "8", "9"}

DigitValue(ch) == CHOOSE n \in 0..9 : Digit(n) = ch

RECURSIVE IntDigits(_)
\* The decimal digits of a natural number.
IntDigits(n) == IF n < 10 THEN <<Digit(n)>> ELSE IntDigits(n \div 10) \o <<Digit(n % 10)>>

\* String(x) for a finite x of h halves.
String(h) ==
    IF h < 0
    THEN <<"-">> \o IntDigits((-h) \div 2) \o (IF (-h) % 2 = 1 THEN <<".", "5">> ELSE <<>>)
    ELSE IntDigits(h \div 2) \o (IF h % 2 = 1 THEN <<".", "5">> ELSE <<>>)

RECURSIVE LeadingDigits(_)
\* The longest prefix of str made of digits.
LeadingDigits(str) ==
    IF str = <<>> \/ ~IsDigit(Head(str)) THEN <<>> ELSE <<Head(str)>> \o LeadingDigits(Tail(str))

RECURSIVE DigitsValue(_)
DigitsValue(ds) ==
    IF ds = <<>> THEN 0 ELSE 10 * DigitsValue(SubSeq(ds, 1, Len(ds) - 1)) + DigitValue(ds[Len(ds)])

\* parseInt(str): an optional sign, then the leading digits; NaN without a digit.
parseInt(str) ==
    LET neg == str # <<>> /\ Head(str) = "-"
        rest == IF str # <<>> /\ Head(str) \in {"-", "+"} THEN Tail(str) ELSE str
        ds == LeadingDigits(rest)
    IN IF ds = <<>> THEN NaN
       ELSE Finite(2 * (IF neg THEN -DigitsValue(ds) ELSE DigitsValue(ds)))

\* a > b on numbers: false when either side is NaN.
Greater(a, b) ==
    /\ a.kind # "NaN" /\ b.kind # "NaN"
    /\ \/ a.kind = "finite" /\ b.kind = "finite" /\ a.h > b.h
       \/ a.kind = "Infinity" /\ b.kind = "finite"

\* A faulty variant of Less: the operands of the comparison are swapped.
LessSwapped(a, b) == Greater(a, b)

\* a < b on numbers.
Less(a, b) == Greater(b, a)

\* Number(body.score) for the JSON values a body can hold.
Number(v) ==
    IF v.type = "number" THEN Finite(v.num)
    ELSE IF v.type = "null" THEN Finite(0)
    ELSE IF v.type = "string" /\ v.text = "Infinity" THEN Infinity
    ELSE NaN

IsWhite(ch) == ch = " "

RECURSIVE TrimStart(_)
TrimStart(str) == IF str # <<>> /\ IsWhite(Head(str)) THEN TrimStart(Tail(str)) ELSE str

RECURSIVE TrimEnd(_)
TrimEnd(str) ==
    IF str # <<>> /\ IsWhite(str[Len(str)]) THEN TrimEnd(SubSeq(str, 1, Len(str) - 1)) ELSE str

\* String.prototype.trim
Trim(str) == TrimEnd(TrimStart(str))

\* str.slice(0, n)
SliceTo(str, n) == SubSeq(str, 1, IF Len(str) < n THEN Len(str) ELSE n)

\* JSON.stringify of a comment array: the stored text.
JSONstringify(arr) == [present |-> TRUE, text |-> arr]

\* The value of an absent key.
Absent == [present |-> FALSE, text |-> <<>>]

\* The comments array of a stored value: JSON.parse and the Array.isArray
\* check, [] when the key is absent.
ParseComments(raw) == IF raw.present THEN raw.text ELSE <<>>

\* rawHighScore ? parseInt(rawHighScore) : 0
ParseHighScore(raw) == IF raw # <<>> THEN parseInt(raw) ELSE Finite(0)

(***************************************************************************)
(* The scoreboard: requests, responses and the store.                      *)
(***************************************************************************)
Reqs == 1..MaxReqs

\* A response; comment holds the new comment, if any, and comments the list
\* an init response carries.
NoResp ==
    [status |-> 0, type |-> "none", message |-> "", highScore |-> Finite(0),
     newBest |-> FALSE, comment |-> <<>>, comments |-> <<>>]

\* c.json<ErrorResponse>({status: 'error', message}, 400)
ErrorResp(message) ==
    [NoResp EXCEPT !.status = 400, !.type = "error", !.message = message]

\* The message a catch block builds from what was thrown: the thrown Error's
\* own message behind a prefix, a fixed text for any other thrown value.
CatchMessage(kind, thrown) ==
    IF thrown = "Error"
    THEN IF kind = "init" THEN "Snake initialization failed: <error.message>"
                          ELSE "Saving score failed: <error.message>"
    ELSE IF kind = "init" THEN "Unknown error during snake initialization"
                          ELSE "Unknown error while saving score"

IdleReq ==
    [kind |-> "none", pc |-> "idle", score |-> 0,
     message |-> [type |-> "undefined", text |-> <<>>], user |-> "undefined",
     rawHighScore |-> <<>>, gotHigh |-> FALSE, rawComments |-> Absent, gotComments |-> FALSE,
     highScore |-> Finite(0), newBest |-> FALSE, comments |-> <<>>, comment |-> <<>>,
     before |-> <<>>, resp |-> NoResp]

\* A request answered with a client error before any store access.
Rejected(kind, message) ==
    [IdleReq EXCEPT !.kind = kind, !.pc = "done", !.resp = ErrorResp(message)]

\* username ?? 'anonymous'
ResolveUser(u) == IF u = "undefined" THEN "anonymous" ELSE u

\* The submit handler's final c.json<SnakeScoreResponse>.
ScoreRespond(q) ==
    [q EXCEPT !.pc = "done",
              !.resp = [NoResp EXCEPT !.status = 200, !.type = "snake-score",
                                      !.highScore = q.highScore, !.newBest = q.newBest,
                                      !.comment = q.comment]]

\* A faulty variant of CapComments: the first COMMENT_CAP comments are kept.
CapCommentsOldest(arr) ==
    IF Len(arr) > COMMENT_CAP THEN SubSeq(arr, 1, COMMENT_CAP) ELSE arr

\* if (comments.length > 20) comments = comments.slice(comments.length - 20)
CapComments(arr) ==
    IF Len(arr) > COMMENT_CAP
    THEN SubSeq(arr, Len(arr) - COMMENT_CAP + 1, Len(arr))
    ELSE arr

\* The submit handler from the comment parse to the await of the comment-log
\* write, or to the response when there is no message.  id is the fresh token.
CommentStep(q, id) ==
    LET comments == ParseComments(q.rawComments)
        trimmedMessage == IF q.message.type = "string" THEN Trim(q.message.text) ELSE <<>>
        newComment == [id |-> id, username |-> ResolveUser(q.user), score |-> q.score,
                       message |-> SliceTo(trimmedMessage, MESSAGE_MAX)]
        capped == CapComments(Append(comments, newComment))
    IN IF trimmedMessage # <<>>
       THEN [q EXCEPT !.pc = "setComments", !.comment = <<newComment>>,
                      !.comments = capped]
       ELSE ScoreRespond(q)

\* The submit handler from the end of the reads to its next await.
ScoreCompute(q, id) ==
    LET currentHigh == ParseHighScore(q.rawHighScore)
        newBest == Greater(Finite(q.score), currentHigh)
        highScore == IF newBest THEN Finite(q.score) ELSE currentHigh
        q2 == [q EXCEPT !.newBest = newBest, !.highScore = highScore]
    IN IF newBest THEN [q2 EXCEPT !.pc = "setHigh"] ELSE CommentStep(q2, id)

\* The init handler from the end of the reads to its response.
InitRespond(q) ==
    [q EXCEPT !.pc = "done",
              !.resp = [NoResp EXCEPT !.status = 200, !.type = "snake-init",
                                      !.highScore = ParseHighScore(q.rawHighScore),
                                      !.comments = ParseComments(q.rawComments)]]

\* The continuation of Promise.all: it runs once both reads have answered.
AfterRead(q, id) ==
    IF q.gotHigh /\ q.gotComments
    THEN IF q.kind = "init" THEN InitRespond(q) ELSE ScoreCompute(q, id)
    ELSE q

\* Replace request r by q; a comment built on the way takes the fresh id.
Advance(r, q) ==
    /\ reqs' = [reqs EXCEPT ![r] = q]
    /\ nextId' = IF q.comment # <<>> /\ reqs[r].comment = <<>> THEN nextId + 1 ELSE nextId

ServerInit ==
    /\ scoreSlot = <<>>
    /\ commentsSlot = Absent
    /\ reqs = [r \in Reqs |-> IdleReq]
    /\ started = 0
    /\ nextId = 1
    /\ created = <<>>
    /\ lastResp = NoResp
    /\ lastReq = IdleReq

\* api.post('/snake/score') up to its first store access.  in holds the sets
\* the inputs are drawn from.
StartScore(r, in) ==
    /\ reqs[r].pc = "idle"
    /\ started < in.maxRequests
    /\ in.sequential => \A q \in Reqs : reqs[q].pc = "idle"
    /\ \E postId \in in.postIds, parses \in in.parses, sc \in in.scores,
          msg \in in.messages, user \in in.users :
          LET n == Number(sc)
          IN reqs' = [reqs EXCEPT ![r] =
                 IF ~postId THEN Rejected("score", "postId is required")
                 ELSE IF ~parses THEN Rejected("score", "Invalid request body")
                 ELSE IF n.kind # "finite" \/ Less(n, Finite(0))
                 THEN Rejected("score", "Score must be a non-negative number")
                 ELSE [IdleReq EXCEPT !.kind = "score", !.pc = "read", !.score = n.h,
                                      !.message = msg, !.user = user,
                                      !.before = scoreSlot]]
    /\ started' = started + 1
    /\ UNCHANGED <<scoreSlot, commentsSlot, nextId, created, lastResp, lastReq>>
    /\ UNCHANGED gameVars

\* api.get('/snake/init') up to its first store access.
StartInit(r, in) ==
    /\ reqs[r].pc = "idle"
    /\ started < in.maxRequests
    /\ in.sequential => \A q \in Reqs : reqs[q].pc = "idle"
    /\ \E postId \in in.postIds, user \in in.users :
          reqs' = [reqs EXCEPT ![r] =
              IF ~postId
              THEN Rejected("init", "postId is required but missing from context")
              ELSE [IdleReq EXCEPT !.kind = "init", !.pc = "read", !.user = user,
                                   !.before = scoreSlot]]
    /\ started' = started + 1
    /\ UNCHANGED <<scoreSlot, commentsSlot, nextId, created, lastResp, lastReq>>
    /\ UNCHANGED gameVars

\* redis.get(scoreKey) answers.
ReadHigh(r) ==
    /\ reqs[r].pc = "read" /\ ~reqs[r].gotHigh
    /\ Advance(r, AfterRead([reqs[r] EXCEPT !.rawHighScore = scoreSlot, !.gotHigh = TRUE],
                            nextId))
    /\ UNCHANGED <<scoreSlot, commentsSlot, started, created, lastResp, lastReq>>
    /\ UNCHANGED gameVars

\* redis.get(commentsKey) answers.
ReadComments(r) ==
    /\ reqs[r].pc = "read" /\ ~reqs[r].gotComments
    /\ Advance(r, AfterRead([reqs[r] EXCEPT !.rawComments = commentsSlot,
                                            !.gotComments = TRUE], nextId))
    /\ UNCHANGED <<scoreSlot, commentsSlot, started, created, lastResp, lastReq>>
    /\ UNCHANGED gameVars

\* redis.set(scoreKey, String(highScore)) takes effect.
WriteHigh(r) ==
    /\ reqs[r].pc = "setHigh"
    /\ scoreSlot' = String(reqs[r].highScore.h)
    /\ Advance(r, CommentStep(reqs[r], nextId))
    /\ UNCHANGED <<commentsSlot, started, created, lastResp, lastReq>>
    /\ UNCHANGED gameVars

\* A variant of WriteComments: the new comment is appended to the log as
\* stored at the time of the write, not to the log this request read.
WriteCommentsMerges(r) ==
    /\ reqs[r].pc = "setComments"
    /\ commentsSlot' =
           JSONstringify(CapComments(ParseComments(commentsSlot) \o reqs[r].comment))
    /\ created' = created \o reqs[r].comment
    /\ reqs' = [reqs EXCEPT ![r] = ScoreRespond(reqs[r])]
    /\ UNCHANGED <<scoreSlot, started, nextId, lastResp, lastReq>>
    /\ UNCHANGED gameVars

\* redis.set(commentsKey, JSON.stringify(comments)) takes effect.
WriteComments(r) ==
    /\ reqs[r].pc = "setComments"
    /\ commentsSlot' = JSONstringify(reqs[r].comments)
    /\ created' = created \o reqs[r].comment
    /\ reqs' = [reqs EXCEPT ![r] = ScoreRespond(reqs[r])]
    /\ UNCHANGED <<scoreSlot, started, nextId, lastResp, lastReq>>
    /\ UNCHANGED gameVars

\* The store operation a request waits for throws: the catch block answers.
StoreFails(r, in) ==
    /\ TRUE \in in.failures
    /\ reqs[r].pc \in {"read", "setHigh", "setComments"}
    /\ \E thrown \in in.thrown :
          reqs' = [reqs EXCEPT ![r] =
              [reqs[r] EXCEPT !.pc = "done",
                              !.resp = ErrorResp(CatchMessage(reqs[r].kind, thrown))]]
    /\ UNCHANGED <<scoreSlot, commentsSlot, started, nextId, created, lastResp, lastReq>>
    /\ UNCHANGED gameVars

\* The response leaves; the connection is free again.
Return(r) ==
    /\ reqs[r].pc = "done"
    /\ lastResp' = reqs[r].resp
    /\ lastReq' = reqs[r]
    /\ reqs' = [reqs EXCEPT ![r] = IdleReq]
    /\ UNCHANGED <<scoreSlot, commentsSlot, started, nextId, created>>
    /\ UNCHANGED gameVars

(***************************************************************************)
(* The inputs of the scoreboard specifications.                            *)
(***************************************************************************)
NumberValue(h) == [type |-> "number", num |-> h, text |-> ""]

ScoreValues ==
    {NumberValue(h) : h \in (-1)..MaxScore}
    \cup {[type |-> "undefined", num |-> 0, text |-> ""],
          [type |-> "string", num |-> 0, text |-> "Infinity"]}

MessageValues ==
    {[type |-> "undefined", text |-> <<>>],
     [type |-> "string", text |-> <<" ">>],
     [type |-> "string", text |-> <<" ", "g", "g", " ">>]}

\* Overlapping requests, failing store operations.
ServerInputs ==
    [postIds |-> BOOLEAN, parses |-> BOOLEAN, scores |-> ScoreValues,
     messages |-> MessageValues, users |-> {"undefined"}, failures |-> BOOLEAN,
     thrown |-> {"Error", "other"},
     sequential |-> FALSE, maxRequests |-> MaxRequests]

\* One request at a time.
SeqInputs == [ServerInputs EXCEPT !.sequential = TRUE, !.maxRequests = SeqRequests]

\* One request at a time, every submit with the same score and a message, and
\* no store failure.
LogInputs ==
    [postIds |-> {TRUE}, parses |-> {TRUE}, scores |-> {NumberValue(2)},
     messages |-> {[type |-> "string", text |-> <<" ", "g", "g", " ">>]},
     users |-> {"snoo"}, failures |-> {FALSE}, thrown |-> {"Error"},
     sequential |-> TRUE, maxRequests |-> LogRequests]

ServerNext ==
    \/ \E r \in Reqs : StartScore(r, ServerInputs)
    \/ \E r \in Reqs : StartInit(r, ServerInputs)
    \/ \E r \in Reqs : ReadHigh(r)
    \/ \E r \in Reqs : ReadComments(r)
    \/ \E r \in Reqs : WriteHigh(r)
    \/ \E r \in Reqs : WriteComments(r)
    \/ \E r \in Reqs : StoreFails(r, ServerInputs)
    \/ \E r \in Reqs : Return(r)

SeqNext ==
    \/ \E r \in Reqs : StartScore(r, SeqInputs)
    \/ \E r \in Reqs : StartInit(r, SeqInputs)
    \/ \E r \in Reqs : ReadHigh(r)
    \/ \E r \in Reqs : ReadComments(r)
    \/ \E r \in Reqs : WriteHigh(r)
    \/ \E r \in Reqs : WriteComments(r)
    \/ \E r \in Reqs : StoreFails(r, SeqInputs)
    \/ \E r \in Reqs : Return(r)

LogNext ==
    \/ \E r \in Reqs : StartScore(r, LogInputs)
    \/ \E r \in Reqs : StartInit(r, LogInputs)
    \/ \E r \in Reqs : ReadHigh(r)
    \/ \E r \in Reqs : ReadComments(r)
    \/ \E r \in Reqs : WriteHigh(r)
    \/ \E r \in Reqs : WriteComments(r)
    \/ \E r \in Reqs : Return(r)

\* The scoreboard specifications leave the game in its load state, the first
\* food drawn on the start cell.
Init == GameInit({StartCell}) /\ ServerInit

\* Overlapping requests against one store.
Spec == Init /\ [][ServerNext]_vars

\* Requests one after the other.
SpecSeq == Init /\ [][SeqNext]_vars

\* A long run of submissions with messages.
SpecLog == Init /\ [][LogNext]_vars

\* Overlapping requests, every submit with a message and with a score that is
\* valid, negative, missing or infinite; no store failure.
PairInputs ==
    [postIds |-> BOOLEAN, parses |-> {TRUE},
     scores |-> {NumberValue(-1), NumberValue(2),
                 [type |-> "undefined", num |-> 0, text |-> ""],
                 [type |-> "string", num |-> 0, text |-> "Infinity"]},
     messages |-> {[type |-> "string", text |-> <<" ", "g", "g", " ">>]},
     users |-> {"undefined"}, failures |-> {FALSE}, thrown |-> {"Error"},
     sequential |-> FALSE, maxRequests |-> PairRequests]

PairNext ==
    \/ \E r \in Reqs : StartScore(r, PairInputs)
    \/ \E r \in Reqs : StartInit(r, PairInputs)
    \/ \E r \in Reqs : ReadHigh(r)
    \/ \E r \in Reqs : ReadComments(r)
    \/ \E r \in Reqs : WriteHigh(r)
    \/ \E r \in Reqs : WriteComments(r)
    \/ \E r \in Reqs : Return(r)

\* Overlapping submissions with messages.
SpecPair == Init /\ [][PairNext]_vars

(***************************************************************************)
(* Free play: every key, food drawn around the middle of the board.        *)
(***************************************************************************)
\* Free play does not follow the clock: a tick can fire whenever the session
\* is running.
GameNext ==
    \/ KeyShift(Candidates) /\ UNCHANGED timerVars
    \/ ClickControl(Candidates) /\ UNCHANGED timerVars
    \/ ClickPlayAgain(Candidates) /\ UNCHANGED timerVars
    \/ \E next \in {KeyDirection(key) : key \in DirectionKeys} :
          KeyDir(next) /\ UNCHANGED timerVars
    \/ Tick(Candidates, MaxLen) /\ UNCHANGED timerVars

\* The load state of free play, the store empty.
FreeInit == GameInit(Candidates) /\ ServerInit

SpecGame == FreeInit /\ [][GameNext]_vars

(***************************************************************************)
(* Lane play: the player only ever presses the up key, and food is drawn   *)
(* from the lane, so that a session reaches the speed floor.               *)
(***************************************************************************)
LaneKeys == {"ArrowUp", "w"}

LaneNext ==
    \/ KeyShift(LaneCandidates) /\ UNCHANGED timerVars
    \/ ClickControl(LaneCandidates) /\ UNCHANGED timerVars
    \/ ClickPlayAgain(LaneCandidates) /\ UNCHANGED timerVars
    \/ \E next \in {KeyDirection(key) : key \in LaneKeys} :
          KeyDir(next) /\ UNCHANGED timerVars
    \/ Tick(LaneCandidates, LaneMaxLen) /\ UNCHANGED timerVars

\* The load state of lane play, the store empty.
LaneInit == GameInit(LaneCandidates) /\ ServerInit

SpecLane == LaneInit /\ [][LaneNext]_vars

(***************************************************************************)
(* Timed lane play: the interval set by the tick effect is followed, the   *)
(* tick interval divided into TimerSteps steps of the clock.               *)
(***************************************************************************)
\* The tick effect holds an interval: if (!isRunning || gameOver) return;
Running == isRunning /\ ~gameOver

\* Time passes while the interval runs, up to the moment its callback is due.
Wait ==
    /\ Running
    /\ sinceArm < TimerSteps
    /\ sinceTick <= TimerSteps
    /\ sinceArm' = sinceArm + 1
    /\ sinceTick' = sinceTick + 1
    /\ UNCHANGED <<snake, direction, nextDirection, food, score, gameOver, isRunning, tickMs>>
    /\ UNCHANGED serverVars

\* The interval callback fires one tick interval after setInterval or after
\* its last firing.  The interval goes on, or the tick effect replaces it (new
\* food, new tickMs) or clears it (game over): in each case no time has
\* passed on the interval the next state holds.
TimedTick(cands, maxLen) ==
    /\ sinceArm = TimerSteps
    /\ Tick(cands, maxLen)
    /\ sinceArm' = 0
    /\ sinceTick' = 0

\* keydown of a direction key.  An accepted key stores a new object in
\* nextDirection, a dependency of the tick effect: the effect's cleanup
\* clears the interval and the effect sets a new one.
TimedKeyDir(next) ==
    /\ KeyDir(next)
    /\ sinceArm' = IF IsOpposite(next, direction) THEN sinceArm ELSE 0
    /\ UNCHANGED sinceTick

\* Shift, the control button and "Play again" change isRunning or reset the
\* session: the tick effect clears its interval or sets a new one.
TimedKeyShift(cands) == KeyShift(cands) /\ sinceArm' = 0 /\ sinceTick' = 0

TimedClickControl(cands) == ClickControl(cands) /\ sinceArm' = 0 /\ sinceTick' = 0

TimedClickPlayAgain(cands) == ClickPlayAgain(cands) /\ sinceArm' = 0 /\ sinceTick' = 0

TimerNext ==
    \/ TimedKeyShift(LaneCandidates)
    \/ TimedClickControl(LaneCandidates)
    \/ TimedClickPlayAgain(LaneCandidates)
    \/ \E next \in {KeyDirection(key) : key \in LaneKeys} : TimedKeyDir(next)
    \/ TimedTick(LaneCandidates, TimerMaxLen)
    \/ Wait

SpecTimer == LaneInit /\ [][TimerNext]_vars

(***************************************************************************)
(* Properties of the game session.                                         *)
(***************************************************************************)
OnBoard(c) == c.x \in 0..(BOARD_SIZE - 1) /\ c.y \in 0..(BOARD_SIZE - 1)

Max(a, b) == IF a > b THEN a ELSE b

\* The cell one step from the head in the buffered direction.
Ahead == [x |-> snake[1].x + nextDirection.x, y |-> snake[1].y + nextDirection.y]

\* A step of the interval callback in free play.
TickStep == Tick(Candidates, MaxLen)

\* A step of resetGame: only a reset clears the game-over flag.
ResetStep == gameOver /\ ~gameOver'

\* C5: in every reachable state of a session the snake is non-empty, every cell
\* of it lies on the 20x20 board and its cells are pairwise distinct.
C5_SnakeWellFormed ==
    /\ Len(snake) >= 1
    /\ \A i \in 1..Len(snake) : OnBoard(snake[i])
    /\ \A i, j \in 1..Len(snake) : i # j => snake[i] # snake[j]

\* C5 witness: a snake of three or more cells with its head on the right wall.
C5_Witness == Len(snake) >= 3 /\ snake[1].x = BOARD_SIZE - 1

\* C6: a tick changes the snake length by 0 or +1; the length decreases only by
\* a reset, and it changes only by a tick or a reset.
C6_LengthSteps ==
    [][/\ TickStep => (Len(snake') - Len(snake)) \in {0, 1}
       /\ Len(snake') < Len(snake) => ResetStep
       /\ Len(snake') # Len(snake) => (TickStep \/ ResetStep)]_vars

\* C6 witness: a running session whose snake has grown.
C6_Witness == Len(snake) >= 2 /\ isRunning /\ score >= 1

\* C7: the tick interval always lies in [MIN_TICK_MS, BASE_TICK_MS], and it
\* never increases from one state to the next except by a reset.
C7_TickInterval ==
    /\ [](tickMs >= MIN_TICK_MS * TICK_SCALE /\ tickMs <= BASE_TICK_MS * TICK_SCALE)
    /\ [][tickMs' <= tickMs \/ ResetStep]_vars

\* C7 witness: the session has reached the floor of the tick interval.
C7_Witness == tickMs = MIN_TICK_MS * TICK_SCALE /\ score >= 16 /\ isRunning

Reverse(d) == [x |-> -d.x, y |-> -d.y]

\* C8: an input opposite to the committed direction leaves the buffered
\* direction unchanged; the buffered direction is never the opposite of the
\* committed one, and no tick commits the reverse of the direction committed
\* before it.
C8_NoReversal ==
    /\ [](nextDirection # Reverse(direction))
    /\ [][/\ KeyDir(Reverse(direction)) => nextDirection' = nextDirection
          /\ TickStep => direction' # Reverse(direction)]_vars

\* C8 witness: a running session of two or more cells whose buffered direction
\* differs from the committed one.
C8_Witness == Len(snake) >= 2 /\ isRunning /\ nextDirection # direction

\* C9: a tick of a running session whose head would leave the board ends the
\* game and leaves the snake, the food, the score and the tick interval
\* unchanged.
C9_BoundaryCollision ==
    [][(TickStep /\ ~OnBoard(Ahead)) =>
          /\ gameOver' /\ ~isRunning'
          /\ UNCHANGED <<snake, food, score, tickMs>>]_vars

\* C9 witness: the game ended with the head on the top wall, heading up.
C9_Witness ==
    /\ gameOver /\ ~isRunning
    /\ snake[1].y = 0 /\ direction = [x |-> 0, y |-> -1] /\ nextDirection = direction

\* C10: a tick of a running session whose head would enter a cell of the
\* current snake, the tail cell included, ends the game and leaves the snake,
\* the food, the score and the tick interval unchanged.
C10_SelfCollision ==
    [][(TickStep /\ Ahead \in SnakeCells(snake)) =>
          /\ gameOver' /\ ~isRunning'
          /\ UNCHANGED <<snake, food, score, tickMs>>]_vars

\* C10 witness: the game ended with the head heading into the tail cell.
C10_Witness ==
    /\ gameOver /\ ~isRunning
    /\ Len(snake) >= 4 /\ nextDirection = direction
    /\ Ahead = snake[Len(snake)]

\* A step of the interval callback in lane play.
LaneTickStep == Tick(LaneCandidates, LaneMaxLen)

C12_FoodOffSnake ==
    (isRunning /\ ~gameOver) => (food \notin SnakeCells(snake) \/ food = Cell(0, 0))

\* C13: a session that is not running (idle, paused or over) takes no tick:
\* until a reset, its snake, committed direction, food, score and tick
\* interval stay as they are, and a resume changes nothing but the running flag.
C13_NoTickUnlessRunning ==
    [][/\ (~isRunning \/ gameOver)
          => (ResetStep \/ UNCHANGED <<snake, direction, food, score, tickMs>>)
       /\ (~isRunning /\ ~gameOver /\ isRunning')
          => UNCHANGED <<snake, direction, nextDirection, food, score, tickMs, gameOver>>]_vars

\* A session in progress is paused with a turn buffered.
C13_Witness ==
    /\ ~isRunning /\ ~gameOver
    /\ Len(snake) >= 2 /\ score >= 1 /\ nextDirection # direction

\* C14: a session that is over is not running, and it stays over, with its
\* snake, committed direction, food, score and tick interval, until a reset:
\* any step that sets the running flag or clears the game-over flag is a
\* reset to the start cell and score 0.
C14_GameOverOnlyReset ==
    /\ [](gameOver => ~isRunning)
    /\ [][gameOver
          => \/ /\ gameOver' /\ ~isRunning'
                /\ UNCHANGED <<snake, direction, food, score, tickMs>>
             \/ /\ ~gameOver' /\ isRunning'
                /\ snake' = <<StartCell>> /\ score' = 0
                /\ tickMs' = BASE_TICK_MS * TICK_SCALE]_vars

\* A session with points is over and a direction key was pressed after its end.
C14_Witness ==
    /\ gameOver /\ ~isRunning
    /\ score >= 1 /\ Len(snake) = score + 1 /\ nextDirection # direction

\* C15: a reset produces the snake [(10,10)], committed and buffered direction
\* (1,0), score 0, tick interval 800, the game-over flag clear, the running
\* flag set, and food on a board cell other than the start cell.
C15_Reset ==
    [][ResetStep
       => /\ snake' = <<Cell(10, 10)>>
          /\ direction' = Cell(1, 0) /\ nextDirection' = Cell(1, 0)
          /\ score' = 0 /\ tickMs' = 800 * TICK_SCALE
          /\ ~gameOver' /\ isRunning'
          /\ OnBoard(food') /\ food' # Cell(10, 10)]_vars

\* The session right after a reset: in its start layout and running, the food
\* where only generateFood([startCell]) can have put it.
C15_Witness ==
    /\ isRunning /\ ~gameOver
    /\ snake = <<StartCell>> /\ direction = Cell(1, 0) /\ nextDirection = Cell(1, 0)
    /\ score = 0 /\ tickMs = BASE_TICK_MS * TICK_SCALE /\ food = Cell(0, 0)

\* C19: while a session is running, a tick fires at most one tick interval
\* after the previous tick (or after the session became running), whatever
\* direction keys are pressed in between.
C19_FixedDelay == Running => sinceTick <= TimerSteps

\* C20 as stated: every food pickup strictly decreases the tick interval.
C20_StrictSpeedup == [][score' = score + 1 => tickMs' < tickMs]_vars

\* C20, amended: a food pickup strictly decreases the tick interval while it
\* is above 150 ms, never below 150 ms; at 150 ms a pickup leaves it at 150 ms.
C20_SpeedupAboveFloor ==
    [][score' = score + 1
       => IF tickMs > MIN_TICK_MS * TICK_SCALE
          THEN tickMs' < tickMs /\ tickMs' >= MIN_TICK_MS * TICK_SCALE
          ELSE tickMs' = tickMs]_vars

\* The seventeenth pickup was taken at the floor.
C20_Witness == score = 17 /\ tickMs = MIN_TICK_MS * TICK_SCALE

StoredScore(raw) ==
    2 * DigitsValue(LeadingDigits(raw))
    + (IF Len(raw) >= 2 /\ SubSeq(raw, Len(raw) - 1, Len(raw)) = <<".", "5">> THEN 1 ELSE 0)

\* The last n elements of a sequence, all of it when it is shorter.
LastN(seq, n) == IF Len(seq) > n THEN SubSeq(seq, Len(seq) - n + 1, Len(seq)) ELSE seq

NoneInFlight == \A r \in Reqs : reqs[r].pc = "idle"

\* C1: every write to the high-score slot stores a value >= the value it
\* replaces, whatever the interleaving of the submit requests.
C1_HighScoreMonotonic == [][StoredScore(scoreSlot') >= StoredScore(scoreSlot)]_vars

\* C2: a submit request with no concurrent writer, stored high score H and
\* accepted score s answers highScore = max(s, H) and newBest = (s > H), and
\* has written the slot (to s) exactly when s > H.
C2_SubmitResponse ==
    \A r \in Reqs :
        (reqs[r].kind = "score" /\ reqs[r].pc = "done" /\ reqs[r].resp.status = 200) =>
            LET H == StoredScore(reqs[r].before)
                s == reqs[r].score
            IN /\ reqs[r].resp.highScore = Finite(Max(s, H))
               /\ reqs[r].resp.newBest = (s > H)
               /\ scoreSlot = IF s > H THEN String(s) ELSE reqs[r].before

\* C3: with one request at a time and a message on every submit, the stored
\* comment log is the last min(n, 20) comments in submission order, every
\* comment built was persisted, and the log never holds more than 20.
C3_CommentLog ==
    /\ ParseComments(commentsSlot) = LastN(created, COMMENT_CAP)
    /\ Len(ParseComments(commentsSlot)) <= COMMENT_CAP
    /\ \A i \in 1..Len(created) : created[i].id = i
    /\ NoneInFlight => Len(created) = nextId - 1

\* C3 witness: 21 submissions were persisted, the oldest comment is evicted.
C3_Witness ==
    /\ NoneInFlight
    /\ Len(created) = COMMENT_CAP + 1
    /\ Len(ParseComments(commentsSlot)) = COMMENT_CAP
    /\ ParseComments(commentsSlot)[1].id = 2

\* C4: an init request right after a successful submit request, with no
\* concurrent writer, returns the highScore of the submit response, and its
\* comments hold the comment of the submit response when there is one.
C4_RoundTrip ==
    \A r \in Reqs :
        (/\ reqs[r].kind = "init" /\ reqs[r].pc = "done" /\ reqs[r].resp.status = 200
         /\ lastResp.type = "snake-score") =>
            /\ reqs[r].resp.highScore = lastResp.highScore
            /\ \A k \in 1..Len(lastResp.comment) :
                   \E i \in 1..Len(reqs[r].resp.comments) :
                       reqs[r].resp.comments[i] = lastResp.comment[k]


(***************************************************************************)
(* Properties of the scoreboard's error paths and overlapping submissions.  *)
(***************************************************************************)
\* Submit requests without a context identifier.
MissingContext == [PairInputs EXCEPT !.postIds = {FALSE}]

\* Submit requests with a context identifier and a readable body whose score
\* is not a finite number or is below zero.
BadScore ==
    [PairInputs EXCEPT
        !.postIds = {TRUE},
        !.scores = {sc \in PairInputs.scores :
                       Number(sc).kind # "finite" \/ Number(sc).h < 0}]

\* C16: a submit request without a context identifier, or whose score is not
\* finite or is negative, is answered with the structured 400 error at once:
\* it reads nothing from the store and the store is left as it was.
C16_RejectedBeforeStore ==
    [][\A r \in Reqs :
          (StartScore(r, MissingContext) \/ StartScore(r, BadScore))
          => /\ reqs'[r].pc = "done"
             /\ reqs'[r].resp.status = 400 /\ reqs'[r].resp.type = "error"
             /\ ~reqs'[r].gotHigh /\ ~reqs'[r].gotComments
             /\ scoreSlot' = scoreSlot /\ commentsSlot' = commentsSlot]_vars

\* A submission with a bad score was rejected while the store held a high
\* score and a comment log.
C16_Witness ==
    /\ scoreSlot # <<>> /\ commentsSlot.present
    /\ \E r \in Reqs :
          /\ reqs[r].kind = "score" /\ reqs[r].pc = "done"
          /\ reqs[r].resp.message = "Score must be a non-negative number"
          /\ ~reqs[r].gotHigh /\ ~reqs[r].gotComments

\* C17: when a store operation fails during init or submit, the caller gets
\* a server-error outcome (a 5xx status, not the 400 of the client errors)
\* whose message is a fixed text.
C17_ServerError ==
    [][\A r \in Reqs :
          StoreFails(r, ServerInputs)
          => /\ reqs'[r].resp.status \in 500..599
             /\ reqs'[r].resp.message \in
                    {"Unknown error during snake initialization",
                     "Unknown error while saving score"}]_vars

\* Requests r1 and r2 are two answered submissions, each with a new comment,
\* that both read the same stored comment log.
Overlapped(r1, r2) ==
    /\ r1 # r2
    /\ \A r \in {r1, r2} :
          /\ reqs[r].kind = "score" /\ reqs[r].pc = "done"
          /\ reqs[r].resp.status = 200 /\ reqs[r].resp.comment # <<>>
    /\ reqs[r1].rawComments = reqs[r2].rawComments

\* The comments of the stored log.
StoredComments ==
    {ParseComments(commentsSlot)[i] : i \in 1..Len(ParseComments(commentsSlot))}

\* C18: two overlapping submissions with messages that read the same comment
\* log are both answered with success and their new comment, and the stored
\* log never holds both comments: one append is lost.
C18_LostAppend ==
    \A r1, r2 \in Reqs :
        Overlapped(r1, r2)
        => ~(/\ reqs[r1].resp.comment[1] \in StoredComments
             /\ reqs[r2].resp.comment[1] \in StoredComments)

\* Both submissions were answered with their comment; the stored log holds
\* the comment of one and not of the other.
C18_Witness ==
    \E r1, r2 \in Reqs :
        /\ Overlapped(r1, r2)
        /\ reqs[r1].resp.comment[1] \in StoredComments
        /\ reqs[r2].resp.comment[1] \notin StoredComments

\* Submission q was a new best, wrote the high score, built its comment, and
\* was answered with an error when the comment-log write failed.
FailedAfterHighWrite(q) ==
    /\ q.kind = "score" /\ q.pc = "done"
    /\ q.resp.type = "error"
    /\ q.newBest /\ q.comment # <<>>

\* Submission q repeats the answered submission p: the same score and
\* message, received while the store held the high score p wrote, and both
\* of its reads have answered.
RetryOf(q, p) ==
    /\ q.kind = "score"
    /\ q.score = p.score /\ q.message = p.message
    /\ q.before = String(p.score)
    /\ q.gotHigh /\ q.gotComments

\* C22: a submit request writes the high score before it builds and writes
\* its comment; when the score is a new best and the comment-log write
\* fails, the answer is an error and the store keeps the new high score; a
\* retry of the same submission, sent after that answer, reports
\* newBest = false.
C22_PartialWrite ==
    /\ [](\A r \in Reqs : reqs[r].pc = "setHigh" => reqs[r].comment = <<>>)
    /\ [](\A r \in Reqs :
            (FailedAfterHighWrite(lastReq) /\ RetryOf(reqs[r], lastReq))
            => ~reqs[r].newBest)
    /\ [][\A r \in Reqs :
            (/\ reqs[r].pc = "setComments" /\ reqs[r].newBest
             /\ reqs'[r].pc = "done" /\ reqs'[r].resp.status # 200)
            => /\ reqs'[r].resp.type = "error"
               /\ scoreSlot' = scoreSlot /\ commentsSlot' = commentsSlot]_vars

====
